---- MODULE Spec2Model ----
(***************************************************************************)
(* A model of goreddit:                                                    *)
(*   the listing / comment-tree decoder (FloatTime.UnmarshalJSON,          *)
(*   CommentResponse.DecodeReplies, RedditAPI.RequestPostJSON),            *)
(*   the request side of the API (NewRequest, Get, PostForm,               *)
(*   RedditAccount.PasswordLogin) and the error hook of package bot.       *)
(*                                                                         *)
(* JSON documents are modelled by their syntax trees (records), byte       *)
(* strings of scalars by sequences of one-character strings, Go pointers   *)
(* by addresses into an explicit heap.                                     *)
(*                                                                         *)
(* Spec      one caller decoding one document                              *)
(* FairSpec  Spec, every started operation keeps running                   *)
(* ConcSpec  two goroutines, each decoding its own response                *)
(* ApiSpec   one caller logging in, sending requests, fetching a post      *)
(* HookSpec  one program creating hooks and logging entries                *)
(***************************************************************************)
EXTENDS Integers, Sequences, FiniteSets, TLC

(* ------------------------------ bounds --------------------------------- *)

\* largest number of comments in one replies payload / response
MaxNodes == 3
\* longest raw scalar drawn from Alphabet
MaxRawLen == 3
\* largest number of post children of element 0
MaxPosts == 2
\* deepest call stack a thread may build (never binding on finite payloads)
MaxStack == MaxNodes + 2

\* largest number of comments in a response decoded next to another one
MaxConcNodes == 2

\* last instant of the clock
MaxTime == 2
\* largest expires_in, in seconds, a login response carries
MaxExpiresIn == 1
\* longest URL path handed to RequestPostJSON
MaxPathLen == 2
\* largest number of hooks SendErrors creates
MaxHooks == 2

Threads == {1, 2}

Nil == "nil"

(* --------------------------- scalar codec ------------------------------ *)

Alphabet == {"0", "1", "7", ".", "-", "t", "\""}
Digits == {"0", "1", "2", "3", "4", "5", "6", "7", "8", "9"}

DigitVal(c) ==
    CASE c = "0" -> 0 [] c = "1" -> 1 [] c = "2" -> 2 [] c = "3" -> 3
      [] c = "4" -> 4 [] c = "5" -> 5 [] c = "6" -> 6 [] c = "7" -> 7
      [] c = "8" -> 8 [] c = "9" -> 9

RawTrue == <<"t", "r", "u", "e">>
RawFalse == <<"f", "a", "l", "s", "e">>
RawEpoch == <<"1", "6", "2", "2", "5", "4", "8", "8", "0", "0", ".", "0">>
RawQuoted == <<"\"", "n", "a", "n", "\"">>
RawNull == <<"n", "u", "l", "l">>

\* strconv.ParseBool: the twelve spellings it accepts
ParseBoolTrue == {<<"1">>, <<"t">>, <<"T">>, <<"T", "R", "U", "E">>,
                  RawTrue, <<"T", "r", "u", "e">>}
ParseBoolFalse == {<<"0">>, <<"f">>, <<"F">>, <<"F", "A", "L", "S", "E">>,
                   RawFalse, <<"F", "a", "l", "s", "e">>}

ParseBoolOk(data) == data \in ParseBoolTrue \cup ParseBoolFalse

\* position of the first "." in s, or Len(s)+1
DotPos(s) ==
    IF \E i \in 1..Len(s) : s[i] = "."
    THEN CHOOSE i \in 1..Len(s) : s[i] = "." /\ \A j \in 1..(i - 1) : s[j] # "."
    ELSE Len(s) + 1

AllDigits(s) == \A i \in 1..Len(s) : s[i] \in Digits

\* the number written by the decimal digits s
DigitsVal(s) ==
    LET val[k \in 0..Len(s)] == IF k = 0 THEN 0 ELSE 10 * val[k - 1] + DigitVal(s[k])
    IN  val[Len(s)]

\* strconv.ParseFloat on decimal text without exponent:
\* [sign] digits [ "." digits ], at least one digit overall.
\* whole = the integer part, i.e. the value truncated toward zero.
ParseFloat(data) ==
    LET signed == Len(data) > 0 /\ data[1] \in {"-", "+"}
        body == IF signed THEN Tail(data) ELSE data
        dot == DotPos(body)
        ip == SubSeq(body, 1, dot - 1)
        fp == SubSeq(body, dot + 1, Len(body))
        ok == /\ AllDigits(ip) /\ AllDigits(fp)
              /\ Len(ip) + Len(fp) > 0
        mag == DigitsVal(ip)
    IN  [ok |-> ok,
         whole |-> IF ~ok THEN 0
                   ELSE IF signed /\ data[1] = "-" THEN 0 - mag ELSE mag]

\* time.Time values: the zero Time, or time.Unix(sec, 0)
ZeroTime == [kind |-> "zero", sec |-> 0]
UnixTime(n) == [kind |-> "unix", sec |-> n]

\* FloatTime.UnmarshalJSON applied to a receiver holding ft
FloatTimeUnmarshalJSON(ft, data) ==
    IF ParseBoolOk(data)
    THEN [err |-> Nil, ft |-> ft]
    ELSE LET r == ParseFloat(data) IN
         IF ~r.ok
         THEN [err |-> "failed to parse float", ft |-> ft]
         ELSE [err |-> Nil, ft |-> UnixTime(r.whole)]

RECURSIVE SeqsOfLen(_, _)
SeqsOfLen(S, n) ==
    IF n = 0 THEN {<<>>}
    ELSE {<<c>> \o s : c \in S, s \in SeqsOfLen(S, n - 1)}

RawInputs ==
    UNION {SeqsOfLen(Alphabet, n) : n \in 1..MaxRawLen}
      \cup {RawTrue, RawFalse, RawEpoch, RawQuoted, RawNull}

(* ---------------------- wire documents (syntax trees) ------------------ *)

\* raw created_utc values carried by the things of the generated documents
GoodStamp == <<"1", "7", ".", "7">>
BadStamp == <<"\"", "\"">>

\* FloatTime.UnmarshalJSON on a fresh FloatTime field, for each of these values
FreshFloatTime == [data \in {GoodStamp, BadStamp} |-> FloatTimeUnmarshalJSON(ZeroTime, data)]

\* a replies payload / listing element:
\*   emptystr   the two bytes ""
\*   string     a non-empty JSON string
\*   nodata     {}                       (no data key)
\*   nochildren {"data":{}}              (no children key)
\*   listing    {"data":{"children":[{"data":c1},...]}}
\*   released   zero bytes (make([]byte, 0))
Raw(k, ch) == [kind |-> k, children |-> ch]
EmptyStringLiteral == Raw("emptystr", <<>>)
Released == Raw("released", <<>>)
LeafKinds == {"emptystr", "string", "nodata", "nochildren"}

WireComment(stamp, replies) == [id |-> <<>>, created_utc |-> stamp, replies |-> replies]

RECURSIVE ForestsOf(_), PayloadsOf(_)
\* wire comments that hold exactly n comments, themselves included
TreesOf(n) ==
    (IF n = 1 THEN {WireComment(BadStamp, EmptyStringLiteral)} ELSE {})
      \cup {WireComment(GoodStamp, p) : p \in PayloadsOf(n - 1)}
\* payloads that hold exactly m comments
PayloadsOf(m) ==
    IF m = 0 THEN {Raw(k, <<>>) : k \in LeafKinds \cup {"listing"}}
    ELSE {Raw("listing", f) : f \in ForestsOf(m)}
\* sequences of wire comments that hold exactly n comments
ForestsOf(n) ==
    IF n = 0 THEN {<<>>}
    ELSE UNION {{<<c>> \o f : c \in TreesOf(k), f \in ForestsOf(n - k)} : k \in 1..n}

\* give every comment its position in the document as its id
RECURSIVE LabelPayload(_, _)
LabelComment(c, path) ==
    [id |-> path, created_utc |-> c.created_utc, replies |-> LabelPayload(c.replies, path)]
LabelPayload(p, path) ==
    Raw(p.kind, [i \in 1..Len(p.children) |-> LabelComment(p.children[i], Append(path, i))])

PayloadsUpTo(n) == UNION {{LabelPayload(p, <<>>) : p \in PayloadsOf(m)} : m \in 0..n}
ReplyPayloads == PayloadsUpTo(MaxNodes)

\* element 0 of a response: a listing of posts
WirePost(i, stamp) == [id |-> <<i>>, created_utc |-> stamp, replies |-> EmptyStringLiteral]
PostListings ==
    {Raw(k, <<>>) : k \in {"string", "nodata", "nochildren"}}
      \cup UNION {{Raw("listing", [i \in 1..n |-> WirePost(i, st[i])]) :
                      st \in [1..n -> {GoodStamp, BadStamp}]} : n \in 0..MaxPosts}
OnePost == Raw("listing", <<WirePost(1, GoodStamp)>>)

\* response bodies: a JSON object, or an array of up to two listings
Body(isArray, elems) == [isArray |-> isArray, elems |-> elems]
Bodies ==
    {Body(FALSE, <<>>), Body(TRUE, <<>>)}
      \cup {Body(TRUE, <<e0>>) : e0 \in PostListings}
      \cup {Body(TRUE, <<e0, e1>>) : e0 \in PostListings, e1 \in PayloadsUpTo(1)}
      \cup {Body(TRUE, <<OnePost, e1>>) : e1 \in ReplyPayloads}

\* serialized length of a payload in bytes
RECURSIVE RawLen(_)
RECURSIVE SumLen(_)
SumLen(cs) ==
    IF cs = <<>> THEN 0
    ELSE 8 + Len(Head(cs).id) + Len(Head(cs).created_utc)
           + RawLen(Head(cs).replies) + SumLen(Tail(cs))
RawLen(p) ==
    CASE p.kind = "emptystr" -> 2
      [] p.kind = "string" -> 3
      [] p.kind = "nodata" -> 2
      [] p.kind = "nochildren" -> 11
      [] p.kind = "released" -> 0
      [] p.kind = "listing" -> 24 + SumLen(p.children)

(* -------------------------- decoded values ----------------------------- *)

\* a CommentResponse: Replies holds addresses of CommentResponse cells
CommentResponse(id, created, listing, replies) ==
    [id |-> id, CreatedUTC |-> created, RepliesListing |-> listing, Replies |-> replies]

\* encoding/json filling one commentIntermediary2 from a wire comment
DecodeCommentThing(c) ==
    [err |-> FreshFloatTime[c.created_utc].err,
     data |-> CommentResponse(c.id, FreshFloatTime[c.created_utc].ft, c.replies, <<>>)]

\* json.Unmarshal(raw, &commentListing)
UnmarshalCommentListing(raw) ==
    CASE raw.kind \in {"emptystr", "string"} ->
            [err |-> "cannot unmarshal string", children |-> <<>>]
      [] raw.kind = "released" ->
            [err |-> "unexpected end of JSON input", children |-> <<>>]
      [] raw.kind \in {"nodata", "nochildren"} ->
            [err |-> Nil, children |-> <<>>]
      [] raw.kind = "listing" ->
            IF \E i \in 1..Len(raw.children) : DecodeCommentThing(raw.children[i]).err # Nil
            THEN [err |-> "failed to parse float", children |-> <<>>]
            ELSE [err |-> Nil,
                  children |-> [i \in 1..Len(raw.children) |->
                                   DecodeCommentThing(raw.children[i]).data]]

\* a PostResponse: Replies holds CommentResponse values
PostResponse(id, created, replies) == [id |-> id, CreatedUTC |-> created, Replies |-> replies]

\* encoding/json filling one postIntermediary2 from a wire post
DecodePostThing(c) ==
    [err |-> FreshFloatTime[c.created_utc].err,
     data |-> PostResponse(c.id, FreshFloatTime[c.created_utc].ft, <<>>)]

\* json.Unmarshal(raw, &posts)
UnmarshalPostListing(raw) ==
    CASE raw.kind \in {"emptystr", "string"} ->
            [err |-> "cannot unmarshal string", children |-> <<>>]
      [] raw.kind = "released" ->
            [err |-> "unexpected end of JSON input", children |-> <<>>]
      [] raw.kind \in {"nodata", "nochildren"} ->
            [err |-> Nil, children |-> <<>>]
      [] raw.kind = "listing" ->
            IF \E i \in 1..Len(raw.children) : DecodePostThing(raw.children[i]).err # Nil
            THEN [err |-> "failed to parse float", children |-> <<>>]
            ELSE [err |-> Nil,
                  children |-> [i \in 1..Len(raw.children) |->
                                   DecodePostThing(raw.children[i]).data]]

\* whether posts.Data.Children[0] is in range
PostIndexInRange(children) == Len(children) > 0

\* string(parentComment.RepliesListing) == `""`
IsEmptyStringLiteral_ZeroBytes(raw) == raw.kind = "released"
IsEmptyStringLiteral(raw) == raw.kind = "emptystr"

(* ------------------------------ state ---------------------------------- *)

VARIABLES
    live,                 \* the threads that run in this behaviour
    goLoopVarPerIteration,\* range-loop variable semantics of the build
    heap,                 \* address -> CommentResponse cell
    pc,                   \* thread -> position of its top-level operation
    input,                \* thread -> the argument of its operation
    stack,                \* thread -> DecodeReplies frames, innermost last
    ret,                  \* thread -> error returned by the last DecodeReplies
    result,               \* thread -> what the operation returned
    trace,                \* thread -> DecodeReplies events so far
    rpj,                  \* thread -> the locals of the top-level operation
    token,                \* api.Account.Token: <<>> for nil, or <<Token>>
    now,                  \* what time.Now() returns, in seconds
    call,                 \* the last call made on the API and what it gave
    defaultHookErrorLevels, \* the package-level variable of package bot
    hooks,                \* the RedditErrorHook values SendErrors has created
    levelHooks,           \* logrus: level -> hooks registered for it
    req                   \* thread -> the request locals of RequestPostJSON

apiVars == <<token, now, call, defaultHookErrorLevels, hooks, levelHooks, req>>

vars == <<live, goLoopVarPerIteration, heap, pc, input, stack, ret, result, trace, rpj,
          token, now, call, defaultHookErrorLevels, hooks, levelHooks, req>>

NextAddr == Len(heap) + 1

Frame(self) ==
    [self |-> self, pc |-> "entry", children |-> <<>>, i |-> 0, cell |-> 0,
     failed |-> TRUE, err |-> Nil]

Top(t) == stack[t][Len(stack[t])]
SetTop(t, f) == [stack EXCEPT ![t] = [@ EXCEPT ![Len(@)] = f]]

Event(ev, id, err) == [ev |-> ev, id |-> id, err |-> err]
Log(t, evs) == [trace EXCEPT ![t] = @ \o evs]

Invocation(op, arg) == [op |-> op, arg |-> arg]

NoResult == [kind |-> "none", err |-> Nil, ft |-> ZeroTime, post |-> <<>>]

NoLocals == [arrays |-> <<>>, post |-> <<>>, children |-> <<>>, comments |-> <<>>,
             i |-> 0, cell |-> 0]

(* ------------------- the API object and the bot hook ------------------- *)

oauthHost == "oauth.reddit.com"
redditHost == "www.reddit.com"
otherHost == "example.com"

URL(host, path) == [Host |-> host, Path |-> path]
NoURL == URL("", <<>>)

RedditEndpointLogin == <<"/", "l">>
OauthEndpointComposeMessage == <<"/", "c">>
OauthEndpointMe == <<"/", "m">>

\* time.Second, in nanoseconds
Second == 1000000000

\* t.Add(d) for a time in whole seconds and a duration in nanoseconds
TimeAdd(t, d) == t + (d \div Second)

\* logrus levels
PanicLevel == "panic"
FatalLevel == "fatal"
ErrorLevel == "error"
WarnLevel == "warning"
InfoLevel == "info"
AllLevels == {PanicLevel, FatalLevel, ErrorLevel, WarnLevel, InfoLevel}

Call(op, url, outcome, err, request) ==
    [op |-> op, url |-> url, outcome |-> outcome, err |-> err, request |-> request,
     username |-> <<>>, hook |-> 0, level |-> "", fired |-> <<>>]
NoCall == Call("none", NoURL, "none", Nil, <<>>)

NoReq == [orig |-> <<>>, path |-> <<>>, u |-> NoURL]

\* NewRedditAPI: the account has no token; package bot is initialized
NewRedditAPI ==
    /\ token = <<>>
    /\ now = 0
    /\ call = NoCall
    /\ defaultHookErrorLevels = <<PanicLevel, FatalLevel, ErrorLevel, WarnLevel>>
    /\ hooks = <<>>
    /\ levelHooks = [l \in AllLevels |-> <<>>]
    /\ req = [t \in Threads |-> NoReq]

Init ==
    /\ live = {1}
    /\ goLoopVarPerIteration \in BOOLEAN
    /\ heap = <<>>
    /\ pc = [t \in Threads |-> "idle"]
    /\ input = [t \in Threads |-> Invocation("none", <<>>)]
    /\ stack = [t \in Threads |-> <<>>]
    /\ ret = [t \in Threads |-> Nil]
    /\ result = [t \in Threads |-> NoResult]
    /\ trace = [t \in Threads |-> <<>>]
    /\ rpj = [t \in Threads |-> NoLocals]
    /\ NewRedditAPI

(* ----------------------- FloatTime.UnmarshalJSON ----------------------- *)

\* var ft FloatTime; err := ft.UnmarshalJSON(data)
UnmarshalJSON(t) ==
    /\ t \in live
    /\ pc[t] = "idle"
    /\ \E data \in RawInputs :
         LET r == FloatTimeUnmarshalJSON(ZeroTime, data) IN
         /\ input' = [input EXCEPT ![t] = Invocation("UnmarshalJSON", data)]
         /\ result' = [result EXCEPT ![t] =
                          [kind |-> "FloatTime", err |-> r.err, ft |-> r.ft, post |-> <<>>]]
    /\ pc' = [pc EXCEPT ![t] = "done"]
    /\ UNCHANGED <<apiVars, live, goLoopVarPerIteration, heap, stack, ret, trace, rpj>>

(* ------------------- CommentResponse.DecodeReplies --------------------- *)

\* a caller invokes DecodeReplies on a freshly decoded comment
CallDecodeReplies(t) ==
    /\ t \in live
    /\ pc[t] = "idle"
    /\ \E p \in ReplyPayloads :
         LET c == CommentResponse(<<>>, UnixTime(17), p, <<>>) IN
         /\ input' = [input EXCEPT ![t] = Invocation("DecodeReplies", c)]
         /\ heap' = Append(heap, c)
    /\ stack' = [stack EXCEPT ![t] = <<Frame(NextAddr)>>]
    /\ rpj' = [rpj EXCEPT ![t].cell = NextAddr]
    /\ pc' = [pc EXCEPT ![t] = "DecodeReplies"]
    /\ UNCHANGED <<apiVars, live, goLoopVarPerIteration, ret, result, trace>>

\* the receiver's payload is the empty-string literal: failed = false; return nil
DR_NoReplies(t) ==
    /\ stack[t] # <<>>
    /\ Top(t).pc = "entry"
    /\ IsEmptyStringLiteral(heap[Top(t).self].RepliesListing)
    /\ stack' = SetTop(t, [Top(t) EXCEPT !.failed = FALSE, !.pc = "ret", !.err = Nil])
    /\ trace' = Log(t, <<Event("call", heap[Top(t).self].id, Nil)>>)
    /\ UNCHANGED <<apiVars, live, goLoopVarPerIteration, heap, pc, input, ret, result, rpj>>

\* json.Unmarshal of the payload fails: return err
DR_ParseFail(t) ==
    /\ stack[t] # <<>>
    /\ Top(t).pc = "entry"
    /\ ~IsEmptyStringLiteral(heap[Top(t).self].RepliesListing)
    /\ LET r == UnmarshalCommentListing(heap[Top(t).self].RepliesListing) IN
         /\ r.err # Nil
         /\ stack' = SetTop(t, [Top(t) EXCEPT !.pc = "ret", !.err = r.err])
    /\ trace' = Log(t, <<Event("call", heap[Top(t).self].id, Nil),
                         Event("parse", heap[Top(t).self].id, "err")>>)
    /\ UNCHANGED <<apiVars, live, goLoopVarPerIteration, heap, pc, input, ret, result, rpj>>

\* json.Unmarshal of the payload succeeds: enter the range loop
DR_ParseOk(t) ==
    /\ stack[t] # <<>>
    /\ Top(t).pc = "entry"
    /\ ~IsEmptyStringLiteral(heap[Top(t).self].RepliesListing)
    /\ LET r == UnmarshalCommentListing(heap[Top(t).self].RepliesListing) IN
         /\ r.err = Nil
         /\ stack' = SetTop(t, [Top(t) EXCEPT !.pc = "loop", !.children = r.children, !.i = 1])
    /\ trace' = Log(t, <<Event("call", heap[Top(t).self].id, Nil),
                         Event("parse", heap[Top(t).self].id, Nil)>>)
    /\ UNCHANGED <<apiVars, live, goLoopVarPerIteration, heap, pc, input, ret, result, rpj>>

\* the address of the range variable `comment` in this iteration
LoopVarAddr_PackageLevel(perIteration, f, fresh) == 1
LoopVarAddr(perIteration, f, fresh) ==
    IF perIteration \/ f.cell = 0 THEN fresh ELSE f.cell

\* the receiver of the recursive call made by the loop body
Callee_Parent(parentAddr, commentAddr) == parentAddr
Callee(parentAddr, commentAddr) == commentAddr

\* the index of the next iteration
NextIndex(i) == i + 1

\* one iteration: comment := Children[i]; append &comment.Data; call
DR_LoopIter(t) ==
    /\ stack[t] # <<>>
    /\ Len(stack[t]) < MaxStack
    /\ Top(t).pc = "loop"
    /\ Top(t).i <= Len(Top(t).children)
    /\ LET f == Top(t)
           a == LoopVarAddr(goLoopVarPerIteration, f, NextAddr)
           h1 == IF a = NextAddr THEN Append(heap, f.children[f.i])
                 ELSE [heap EXCEPT ![a] = f.children[f.i]]
       IN
         /\ heap' = [h1 EXCEPT ![f.self].Replies = Append(@, a)]
         /\ stack' = [stack EXCEPT ![t] =
                        Append([@ EXCEPT ![Len(@)] = [f EXCEPT !.pc = "called", !.cell = a]],
                               Frame(Callee(f.self, a)))]
    /\ UNCHANGED <<apiVars, live, goLoopVarPerIteration, pc, input, ret, result, trace, rpj>>

\* the recursive call returned: propagate its error or go on
DR_AfterCall(t) ==
    /\ stack[t] # <<>>
    /\ Top(t).pc = "called"
    /\ stack' = SetTop(t, IF ret[t] # Nil
                          THEN [Top(t) EXCEPT !.pc = "ret", !.err = ret[t]]
                          ELSE [Top(t) EXCEPT !.pc = "loop", !.i = NextIndex(@)])
    /\ UNCHANGED <<apiVars, live, goLoopVarPerIteration, heap, pc, input, ret, result, trace, rpj>>

\* the range is exhausted: failed = false; return nil
DR_LoopEnd(t) ==
    /\ stack[t] # <<>>
    /\ Top(t).pc = "loop"
    /\ Top(t).i > Len(Top(t).children)
    /\ stack' = SetTop(t, [Top(t) EXCEPT !.failed = FALSE, !.pc = "ret", !.err = Nil])
    /\ UNCHANGED <<apiVars, live, goLoopVarPerIteration, heap, pc, input, ret, result, trace, rpj>>

\* the deferred function: the payload the receiver holds after the call
DeferredRelease_Always(failed, listing) == Released
DeferredRelease(failed, listing) == IF ~failed THEN Released ELSE listing

\* return: run the deferred function, pop the frame, hand the error back
DR_Return(t) ==
    /\ stack[t] # <<>>
    /\ Top(t).pc = "ret"
    /\ LET f == Top(t) IN
         /\ heap' = [heap EXCEPT ![f.self].RepliesListing = DeferredRelease(f.failed, @)]
         /\ ret' = [ret EXCEPT ![t] = f.err]
         /\ trace' = Log(t, <<Event("return", heap[f.self].id, f.err)>>)
    /\ stack' = [stack EXCEPT ![t] = SubSeq(@, 1, Len(@) - 1)]
    /\ UNCHANGED <<apiVars, live, goLoopVarPerIteration, pc, input, result, rpj>>

\* the caller of CallDecodeReplies receives the error
DecodeRepliesDone(t) ==
    /\ pc[t] = "DecodeReplies"
    /\ stack[t] = <<>>
    /\ result' = [result EXCEPT ![t] =
                     [kind |-> "DecodeReplies", err |-> ret[t], ft |-> ZeroTime, post |-> <<>>]]
    /\ pc' = [pc EXCEPT ![t] = "done"]
    /\ UNCHANGED <<apiVars, live, goLoopVarPerIteration, heap, input, stack, ret, trace, rpj>>

(* ---------------------- RedditAPI.RequestPostJSON ---------------------- *)

Returned(err, post) == [kind |-> "RequestPostJSON", err |-> err, ft |-> ZeroTime, post |-> post]
Panicked(msg) == [kind |-> "panic", err |-> msg, ft |-> ZeroTime, post |-> <<>>]

\* api.Get returned a response with this body
RequestPostJSON(t) ==
    /\ t \in live
    /\ pc[t] = "idle"
    /\ \E body \in Bodies : input' = [input EXCEPT ![t] = Invocation("RequestPostJSON", body)]
    /\ pc' = [pc EXCEPT ![t] = "rpj_arrays"]
    /\ UNCHANGED <<apiVars, live, goLoopVarPerIteration, heap, stack, ret, result, trace, rpj>>

\* err = decodeJSON(resp.Body, &arrays)
RPJ_DecodeArrays(t) ==
    /\ pc[t] = "rpj_arrays"
    /\ IF ~input[t].arg.isArray
       THEN /\ result' = [result EXCEPT ![t] = Returned("cannot unmarshal object", <<>>)]
            /\ pc' = [pc EXCEPT ![t] = "done"]
            /\ rpj' = rpj
       ELSE /\ rpj' = [rpj EXCEPT ![t].arrays = input[t].arg.elems]
            /\ pc' = [pc EXCEPT ![t] = "rpj_post"]
            /\ result' = result
    /\ UNCHANGED <<apiVars, live, goLoopVarPerIteration, heap, input, stack, ret, trace>>

\* json.Unmarshal(arrays[0], &posts); post := posts.Data.Children[0].Data
RPJ_DecodePost(t) ==
    /\ pc[t] = "rpj_post"
    /\ IF Len(rpj[t].arrays) < 1
       THEN /\ result' = [result EXCEPT ![t] = Panicked("index out of range [0]")]
            /\ pc' = [pc EXCEPT ![t] = "done"]
            /\ rpj' = rpj
       ELSE LET r == UnmarshalPostListing(rpj[t].arrays[1]) IN
            IF r.err # Nil
            THEN /\ result' = [result EXCEPT ![t] = Returned(r.err, <<>>)]
                 /\ pc' = [pc EXCEPT ![t] = "done"]
                 /\ rpj' = rpj
            ELSE IF ~PostIndexInRange(r.children)
            THEN /\ result' = [result EXCEPT ![t] = Panicked("index out of range [0]")]
                 /\ pc' = [pc EXCEPT ![t] = "done"]
                 /\ rpj' = rpj
            ELSE /\ rpj' = [rpj EXCEPT ![t].post = <<r.children[1]>>]
                 /\ pc' = [pc EXCEPT ![t] = "rpj_comments"]
                 /\ result' = result
    /\ UNCHANGED <<apiVars, live, goLoopVarPerIteration, heap, input, stack, ret, trace>>

\* json.Unmarshal(arrays[1], &commentsListing); comments = []CommentResponse{}
RPJ_DecodeComments(t) ==
    /\ pc[t] = "rpj_comments"
    /\ IF Len(rpj[t].arrays) < 2
       THEN /\ result' = [result EXCEPT ![t] = Panicked("index out of range [1]")]
            /\ pc' = [pc EXCEPT ![t] = "done"]
            /\ rpj' = rpj
       ELSE LET r == UnmarshalCommentListing(rpj[t].arrays[2]) IN
            IF r.err # Nil
            THEN /\ result' = [result EXCEPT ![t] = Returned(r.err, <<>>)]
                 /\ pc' = [pc EXCEPT ![t] = "done"]
                 /\ rpj' = rpj
            ELSE /\ rpj' = [rpj EXCEPT ![t].children = r.children, ![t].comments = <<>>,
                                       ![t].i = 1]
                 /\ pc' = [pc EXCEPT ![t] = "rpj_loop"]
                 /\ result' = result
    /\ UNCHANGED <<apiVars, live, goLoopVarPerIteration, heap, input, stack, ret, trace>>

\* one iteration: comment := Children[i]; err = comment.Data.DecodeReplies()
RPJ_LoopIter(t) ==
    /\ pc[t] = "rpj_loop"
    /\ rpj[t].i <= Len(rpj[t].children)
    /\ LET l == rpj[t]
           a == LoopVarAddr(goLoopVarPerIteration, l, NextAddr)
       IN
         /\ heap' = IF a = NextAddr THEN Append(heap, l.children[l.i])
                    ELSE [heap EXCEPT ![a] = l.children[l.i]]
         /\ rpj' = [rpj EXCEPT ![t].cell = a]
         /\ stack' = [stack EXCEPT ![t] = <<Frame(a)>>]
    /\ pc' = [pc EXCEPT ![t] = "rpj_called"]
    /\ UNCHANGED <<apiVars, live, goLoopVarPerIteration, input, ret, result, trace>>

\* comments after `comments = append(comments, comment.Data)`
Attach_Prepend(comments, data) == <<data>> \o comments
Attach(comments, data) == Append(comments, data)

\* DecodeReplies returned: return nil, err or append the comment by value
RPJ_AfterCall(t) ==
    /\ pc[t] = "rpj_called"
    /\ stack[t] = <<>>
    /\ IF ret[t] # Nil
       THEN /\ result' = [result EXCEPT ![t] = Returned(ret[t], <<>>)]
            /\ pc' = [pc EXCEPT ![t] = "done"]
            /\ rpj' = rpj
       ELSE /\ rpj' = [rpj EXCEPT ![t].comments = Attach(@, heap[rpj[t].cell]),
                                  ![t].i = NextIndex(@)]
            /\ pc' = [pc EXCEPT ![t] = "rpj_loop"]
            /\ result' = result
    /\ UNCHANGED <<apiVars, live, goLoopVarPerIteration, heap, input, stack, ret, trace>>

\* post.Replies = comments; return &post, nil
RPJ_Return(t) ==
    /\ pc[t] = "rpj_loop"
    /\ rpj[t].i > Len(rpj[t].children)
    /\ result' = [result EXCEPT ![t] =
                     Returned(Nil, <<[rpj[t].post[1] EXCEPT !.Replies = rpj[t].comments]>>)]
    /\ pc' = [pc EXCEPT ![t] = "done"]
    /\ UNCHANGED <<apiVars, live, goLoopVarPerIteration, heap, input, stack, ret, trace, rpj>>

\* thread t starts an operation
Start(t) ==
    \/ UnmarshalJSON(t)
    \/ CallDecodeReplies(t)
    \/ RequestPostJSON(t)

\* thread t takes the next step of the operation it runs
Run(t) ==
    \/ DR_NoReplies(t)
    \/ DR_ParseFail(t)
    \/ DR_ParseOk(t)
    \/ DR_LoopIter(t)
    \/ DR_AfterCall(t)
    \/ DR_LoopEnd(t)
    \/ DR_Return(t)
    \/ DecodeRepliesDone(t)
    \/ RPJ_DecodeArrays(t)
    \/ RPJ_DecodePost(t)
    \/ RPJ_DecodeComments(t)
    \/ RPJ_LoopIter(t)
    \/ RPJ_AfterCall(t)
    \/ RPJ_Return(t)

Next == \E t \in Threads : Start(t) \/ Run(t)

Spec == Init /\ [][Next]_vars

\* a started operation keeps running: every thread takes its next step
FairSpec == Spec /\ \A t \in Threads : WF_vars(Run(t))

(* --------------- two responses decoded by two goroutines --------------- *)

\* whether every created_utc in p parses, every leaf is "" or a string and
\* every listing below the top has children
RECURSIVE PlainPayload(_)
PlainPayload(p) ==
    \A i \in 1..Len(p.children) :
        /\ p.children[i].created_utc = GoodStamp
        /\ \/ p.children[i].replies.kind \in {"emptystr", "string"}
           \/ /\ p.children[i].replies.kind = "listing"
              /\ p.children[i].replies.children # <<>>
        /\ PlainPayload(p.children[i].replies)

\* the responses handed to the two goroutines
ConcBodies ==
    {Body(TRUE, <<OnePost, e1>>) :
        e1 \in {p \in PayloadsUpTo(MaxConcNodes) : p.kind = "listing" /\ PlainPayload(p)}}

\* both goroutines exist; nothing is allocated yet
ConcInit ==
    /\ live = Threads
    /\ goLoopVarPerIteration \in BOOLEAN
    /\ heap = <<>>
    /\ pc = [t \in Threads |-> "idle"]
    /\ input = [t \in Threads |-> Invocation("none", <<>>)]
    /\ stack = [t \in Threads |-> <<>>]
    /\ ret = [t \in Threads |-> Nil]
    /\ result = [t \in Threads |-> NoResult]
    /\ trace = [t \in Threads |-> <<>>]
    /\ rpj = [t \in Threads |-> NoLocals]
    /\ NewRedditAPI

\* api.Get returned this goroutine's response
ConcRequestPostJSON(t) ==
    /\ t \in live
    /\ pc[t] = "idle"
    /\ \E body \in ConcBodies : input' = [input EXCEPT ![t] = Invocation("RequestPostJSON", body)]
    /\ pc' = [pc EXCEPT ![t] = "rpj_arrays"]
    /\ UNCHANGED <<apiVars, live, goLoopVarPerIteration, heap, stack, ret, result, trace, rpj>>

\* goroutine t takes the next step of its decode
ConcRun(t) ==
    \/ DR_NoReplies(t)
    \/ DR_ParseFail(t)
    \/ DR_ParseOk(t)
    \/ DR_LoopIter(t)
    \/ DR_AfterCall(t)
    \/ DR_LoopEnd(t)
    \/ DR_Return(t)
    \/ RPJ_DecodeArrays(t)
    \/ RPJ_DecodePost(t)
    \/ RPJ_DecodeComments(t)
    \/ RPJ_LoopIter(t)
    \/ RPJ_AfterCall(t)
    \/ RPJ_Return(t)

ConcNext == \E t \in Threads : ConcRequestPostJSON(t) \/ ConcRun(t)

ConcSpec == ConcInit /\ [][ConcNext]_vars


(* ------------------------ RedditAPI.NewRequest ------------------------- *)

decodeVars == <<live, goLoopVarPerIteration, heap, pc, input, stack, ret, result, trace, rpj>>

BearerAuth(tok) == [scheme |-> "bearer", credentials |-> tok]
BasicAuth == [scheme |-> "basic", credentials |-> "ClientID:clientSecret"]
NoAuth == [scheme |-> "", credentials |-> ""]

Request(method, u, auth) ==
    [Method |-> method, URL |-> u, Authorization |-> auth, ContentType |-> ""]

Built(r) == [outcome |-> "built", err |-> Nil, request |-> <<r>>]
Failed(err) == [outcome |-> "error", err |-> err, request |-> <<>>]
Crashed(msg) == [outcome |-> "panic", err |-> msg, request |-> <<>>]

\* whether time.Now().After(expiry)
TokenExpired(clock, expiry) == clock > expiry

\* api.NewRequest(method, u, body) with the account holding acc at time clock
NewRequest(method, u, acc, clock) ==
    IF u.Host = oauthHost
    THEN IF acc = <<>> THEN Crashed("nil pointer dereference")
         ELSE IF acc[1].Token = "" THEN Failed("no valid token")
         ELSE IF TokenExpired(clock, acc[1].Expiry) THEN Failed("token expired")
         ELSE Built(Request(method, u, BearerAuth(acc[1].Token)))
    ELSE IF u.Host = redditHost
    THEN Built(Request(method, u, BasicAuth))
    ELSE Built(Request(method, u, NoAuth))

\* api.Client.Do(req): a transport error, or a response
TransportError == [ok |-> FALSE, StatusCode |-> 0, Body |-> <<>>]
Response(status, body) == [ok |-> TRUE, StatusCode |-> status, Body |-> body]

\* api.Get(u, query) and api.PostForm(u, data), answered by resp
GetOn(u, acc, clock, resp) ==
    LET r == NewRequest("GET", u, acc, clock) IN
    IF r.outcome # "built" THEN r
    ELSE IF ~resp.ok THEN [outcome |-> "error", err |-> "transport", request |-> r.request]
    ELSE [outcome |-> "response", err |-> Nil, request |-> r.request]
PostFormOn(u, acc, clock, resp) ==
    LET r == NewRequest("POST", u, acc, clock) IN
    IF r.outcome # "built" THEN r
    ELSE LET q == <<[r.request[1] EXCEPT !.ContentType = "application/x-www-form-urlencoded"]>> IN
         IF ~resp.ok THEN [outcome |-> "error", err |-> "transport", request |-> q]
         ELSE [outcome |-> "response", err |-> Nil, request |-> q]

URLs == {URL(h, OauthEndpointMe) : h \in {oauthHost, redditHost, otherHost}}
PlainResponses == {TransportError, Response(200, <<>>)}

\* a caller invokes api.Get
Get(t) ==
    /\ t \in live
    /\ pc[t] = "idle"
    /\ \E u \in URLs, resp \in PlainResponses :
         LET r == GetOn(u, token, now, resp) IN
         call' = Call("Get", u, r.outcome, r.err, r.request)
    /\ UNCHANGED <<decodeVars, token, now, defaultHookErrorLevels, hooks, levelHooks, req>>

\* a caller invokes api.PostForm
PostForm(t) ==
    /\ t \in live
    /\ pc[t] = "idle"
    /\ \E u \in URLs, resp \in PlainResponses :
         LET r == PostFormOn(u, token, now, resp) IN
         call' = Call("PostForm", u, r.outcome, r.err, r.request)
    /\ UNCHANGED <<decodeVars, token, now, defaultHookErrorLevels, hooks, levelHooks, req>>

\* time passes
Tick ==
    /\ now < MaxTime
    /\ now' = now + 1
    /\ UNCHANGED <<decodeVars, token, call, defaultHookErrorLevels, hooks, levelHooks, req>>

(* --------------------- RedditAccount.PasswordLogin --------------------- *)

\* the raw expires_in of a token response
ExpiresInRaw(kind, n) == [kind |-> kind, n |-> n]
ExpiresInRaws ==
    {ExpiresInRaw("int", n) : n \in 0..MaxExpiresIn}
      \cup {ExpiresInRaw(k, 0) : k \in {"absent", "null", "fraction", "string"}}

\* TokenExpiresIn.UnmarshalJSON on a zero TokenExpiresIn
TokenExpiresInUnmarshalJSON(raw) ==
    CASE raw.kind = "int" -> [err |-> Nil, d |-> raw.n * Second]
      [] raw.kind = "null" -> [err |-> Nil, d |-> 0 * Second]
      [] raw.kind \in {"fraction", "string"} ->
            [err |-> "cannot unmarshal into int64", d |-> 0]

\* the body of a token response: not JSON, or an object with these members
TokenBody(json, access, expires, error) ==
    [json |-> json, access_token |-> access, expires_in |-> expires, error |-> error]
TokenBodies ==
    {TokenBody(FALSE, "", ExpiresInRaw("absent", 0), "")}
      \cup {TokenBody(TRUE, a, e, x) :
              a \in {"", "tokA"}, e \in ExpiresInRaws, x \in {"", "invalid_grant"}}

\* decoder.Decode(&token) on a zero Token
DecodeToken(body) ==
    IF ~body.json THEN [err |-> "invalid character", tok |-> <<>>]
    ELSE LET e == IF body.expires_in.kind = "absent" THEN [err |-> Nil, d |-> 0]
                  ELSE TokenExpiresInUnmarshalJSON(body.expires_in)
         IN  IF e.err # Nil THEN [err |-> e.err, tok |-> <<>>]
             ELSE [err |-> Nil,
                   tok |-> <<[Token |-> body.access_token, ExpiresIn |-> e.d,
                              Expiry |-> 0, Error |-> body.error]>>]

LoginResponses ==
    {TransportError} \cup {Response(401, TokenBody(FALSE, "", ExpiresInRaw("absent", 0), ""))}
      \cup {Response(200, b) : b \in TokenBodies}

\* the Token the account holds after a successful login
Stored_Blank(tok, clock) == <<[tok EXCEPT !.Token = "", !.Expiry = TimeAdd(clock, tok.ExpiresIn)]>>
Stored(tok, clock) == <<[tok EXCEPT !.Expiry = TimeAdd(clock, tok.ExpiresIn)]>>

\* a.PasswordLogin(password) answered by resp: the error and the stored Token
PasswordLoginOn(acc, clock, resp) ==
    LET r == PostFormOn(URL(redditHost, RedditEndpointLogin), acc, clock, resp) IN
    IF r.outcome # "response" THEN [err |-> r.err, token |-> acc]
    ELSE IF resp.StatusCode # 200 THEN [err |-> "bad status code", token |-> acc]
    ELSE LET d == DecodeToken(resp.Body) IN
         IF d.err # Nil THEN [err |-> "unable to decode json", token |-> acc]
         ELSE IF d.tok[1].Error # "" THEN [err |-> "reddit returned error", token |-> acc]
         ELSE IF d.tok[1].Token = "" THEN [err |-> "blank token", token |-> acc]
         ELSE [err |-> Nil, token |-> Stored(d.tok[1], clock)]

\* a caller invokes a.PasswordLogin
PasswordLogin(t) ==
    /\ t \in live
    /\ pc[t] = "idle"
    /\ \E resp \in LoginResponses :
         LET r == PasswordLoginOn(token, now, resp) IN
         /\ token' = r.token
         /\ call' = Call("PasswordLogin", URL(redditHost, RedditEndpointLogin),
                         IF r.err = Nil THEN "ok" ELSE "error", r.err, <<>>)
    /\ UNCHANGED <<decodeVars, now, defaultHookErrorLevels, hooks, levelHooks, req>>

(* ---------------- RedditAPI.RequestPostJSON: the request --------------- *)

PathChars == {"/", "a"}
Paths == UNION {SeqsOfLen(PathChars, n) : n \in 0..MaxPathLen}
JSONSuffix == <<".", "j", "s", "o", "n">>

\* the responses api.Get hands to RequestPostJSON here: an object, a comment
\* with one reply, a comment whose replies payload is a string
ApiBodies ==
    {Body(FALSE, <<>>),
     Body(TRUE, <<OnePost,
                  LabelPayload(Raw("listing",
                      <<WireComment(GoodStamp, Raw("listing",
                          <<WireComment(GoodStamp, EmptyStringLiteral)>>))>>), <<>>)>>),
     Body(TRUE, <<OnePost,
                  LabelPayload(Raw("listing",
                      <<WireComment(GoodStamp, Raw("string", <<>>))>>), <<>>)>>)}

\* a caller invokes api.RequestPostJSON(u): path := u.Path
RPJ_Call(t) ==
    /\ t \in live
    /\ pc[t] = "idle"
    /\ \E path \in Paths :
         req' = [req EXCEPT ![t] = [orig |-> path, path |-> path, u |-> URL(redditHost, path)]]
    /\ pc' = [pc EXCEPT ![t] = "rpj_strip"]
    /\ UNCHANGED <<live, goLoopVarPerIteration, heap, input, stack, ret, result, trace, rpj>>
    /\ UNCHANGED <<token, now, call, defaultHookErrorLevels, hooks, levelHooks>>

\* whether the index len(path)-1 is within path
LastIndexInRange(path) == Len(path) - 1 >= 0

\* the loop test path[len(path)-1] == '/' and, when it holds, the loop body;
\* when it fails: path + ".json", u.Host = oauthHost, u.Path = path
RPJ_StripSlash(t) ==
    /\ pc[t] = "rpj_strip"
    /\ LET path == req[t].path IN
       IF ~LastIndexInRange(path)
       THEN /\ result' = [result EXCEPT ![t] = Panicked("index out of range [-1]")]
            /\ pc' = [pc EXCEPT ![t] = "done"]
            /\ req' = req
       ELSE IF path[Len(path)] = "/"
       THEN /\ req' = [req EXCEPT ![t].path = SubSeq(path, 1, Len(path) - 1)]
            /\ UNCHANGED <<pc, result>>
       ELSE /\ req' = [req EXCEPT ![t].path = path \o JSONSuffix,
                                  ![t].u = URL(oauthHost, path \o JSONSuffix)]
            /\ pc' = [pc EXCEPT ![t] = "rpj_get"]
            /\ result' = result
    /\ UNCHANGED <<live, goLoopVarPerIteration, heap, input, stack, ret, trace, rpj>>
    /\ UNCHANGED <<token, now, call, defaultHookErrorLevels, hooks, levelHooks>>

\* resp, err := api.Get(u, raw_json=1); if err != nil { return nil, err }
RPJ_Get(t) ==
    /\ pc[t] = "rpj_get"
    /\ \E resp \in {TransportError} \cup {Response(200, b) : b \in ApiBodies} :
         LET r == GetOn(req[t].u, token, now, resp) IN
         /\ call' = Call("Get", req[t].u, r.outcome, r.err, r.request)
         /\ IF r.outcome = "panic"
            THEN /\ result' = [result EXCEPT ![t] = Panicked(r.err)]
                 /\ pc' = [pc EXCEPT ![t] = "done"]
                 /\ input' = input
            ELSE IF r.outcome = "error"
            THEN /\ result' = [result EXCEPT ![t] = Returned(r.err, <<>>)]
                 /\ pc' = [pc EXCEPT ![t] = "done"]
                 /\ input' = input
            ELSE /\ input' = [input EXCEPT ![t] = Invocation("RequestPostJSON", resp.Body)]
                 /\ pc' = [pc EXCEPT ![t] = "rpj_arrays"]
                 /\ result' = result
    /\ UNCHANGED <<live, goLoopVarPerIteration, heap, stack, ret, trace, rpj>>
    /\ UNCHANGED <<token, now, defaultHookErrorLevels, hooks, levelHooks, req>>

(* ------------------------- package bot: the hook ----------------------- *)

Usernames == {<<>>, <<"b">>, <<"b", "o", "b">>}
UserPrefix == <<"/", "u", "/">>
SubredditPrefix == <<"/", "r", "/">>

Hook(username, levels) == [Username |-> username, levels |-> levels]

\* copy(dst, src): dst afterwards
Copy(dst, src) ==
    [i \in 1..Len(dst) |-> IF i <= Len(src) THEN src[i] ELSE dst[i]]

\* logrus.AddHook: the hook is added under every level of hook.Levels()
AddHook(registry, h, levels) ==
    [l \in AllLevels |->
        IF \E i \in 1..Len(levels) : levels[i] = l THEN Append(registry[l], h)
        ELSE registry[l]]

\* hook.Levels()
Levels(hook) == hook.levels

\* SendErrors(api, username, botName)
SendErrors(t) ==
    /\ t \in live
    /\ pc[t] = "idle"
    /\ \E username \in Usernames :
         IF username = <<>>
         THEN /\ call' = [Call("SendErrors", NoURL, "error", "no username to send errors to", <<>>)
                            EXCEPT !.username = username]
              /\ UNCHANGED <<defaultHookErrorLevels, hooks, levelHooks>>
         ELSE /\ Len(hooks) < MaxHooks
              /\ LET hook == Hook(username, <<>>)
                     h == Len(hooks) + 1
                 IN  /\ defaultHookErrorLevels' = Copy(defaultHookErrorLevels, hook.levels)
                     /\ hooks' = Append(hooks, hook)
                     /\ levelHooks' = AddHook(levelHooks, h, Levels(hook))
                     /\ call' = [Call("SendErrors", NoURL, "ok", Nil, <<>>)
                                   EXCEPT !.username = username, !.hook = h]
    /\ UNCHANGED <<decodeVars, token, now, req>>

\* hook.SetLevels(levels)
SetLevels(t) ==
    /\ t \in live
    /\ pc[t] = "idle"
    /\ \E h \in 1..Len(hooks), levels \in {<<>>, <<ErrorLevel>>, <<ErrorLevel, InfoLevel>>} :
         /\ hooks' = [hooks EXCEPT ![h].levels = levels]
         /\ call' = [Call("SetLevels", NoURL, "ok", Nil, <<>>) EXCEPT !.hook = h]
    /\ UNCHANGED <<decodeVars, token, now, defaultHookErrorLevels, levelHooks, req>>

\* hook.Fire(entry): the hook afterwards and what ComposeMessage gave
Fire(hook, acc, clock, resp) ==
    IF Len(hook.Username) < 3
    THEN [hook |-> hook, outcome |-> "panic", err |-> "slice bounds out of range"]
    ELSE LET prefix == SubSeq(hook.Username, 1, 3)
             hk == IF prefix # UserPrefix /\ prefix # SubredditPrefix
                   THEN [hook EXCEPT !.Username = UserPrefix \o @]
                   ELSE hook
             r == PostFormOn(URL(oauthHost, OauthEndpointComposeMessage), acc, clock, resp)
         IN  [hook |-> hk,
              outcome |-> IF r.outcome = "response" THEN "sent" ELSE r.outcome,
              err |-> r.err]

\* logrus fires, in order, the hooks registered for the entry's level and
\* stops at the first that fails
RECURSIVE FireHooks(_, _, _, _, _)
FireHooks(ids, hs, acc, clock, resp) ==
    IF ids = <<>> THEN [hooks |-> hs, fired |-> <<>>, outcome |-> "none"]
    ELSE LET f == Fire(hs[Head(ids)], acc, clock, resp)
             hs1 == [hs EXCEPT ![Head(ids)] = f.hook]
         IN  IF f.outcome # "sent"
             THEN [hooks |-> hs1, fired |-> <<Head(ids)>>, outcome |-> f.outcome]
             ELSE LET rest == FireHooks(Tail(ids), hs1, acc, clock, resp) IN
                  [hooks |-> rest.hooks, fired |-> <<Head(ids)>> \o rest.fired,
                   outcome |-> IF rest.outcome = "none" THEN "sent" ELSE rest.outcome]

\* the program logs an entry at some level
LogEntry(t) ==
    /\ t \in live
    /\ pc[t] = "idle"
    /\ \E level \in AllLevels, resp \in PlainResponses :
         LET r == FireHooks(levelHooks[level], hooks, token, now, resp) IN
         /\ hooks' = r.hooks
         /\ call' = [Call("Log", NoURL, r.outcome, Nil, <<>>)
                       EXCEPT !.level = level, !.fired = r.fired]
    /\ UNCHANGED <<decodeVars, token, now, defaultHookErrorLevels, levelHooks, req>>

(* ------------------- the API used by a single caller ------------------- *)

ApiCall(t) ==
    \/ PasswordLogin(t)
    \/ Get(t)
    \/ PostForm(t)
    \/ RPJ_Call(t)

ApiRun(t) ==
    \/ RPJ_StripSlash(t)
    \/ RPJ_Get(t)
    \/ ConcRun(t)

ApiNext == Tick \/ \E t \in Threads : ApiCall(t) \/ ApiRun(t)

ApiSpec == Init /\ [][ApiNext]_vars

(* ---------------------- a program that uses the hook ------------------- *)

HookNext == \E t \in Threads : SendErrors(t) \/ SetLevels(t) \/ LogEntry(t)

HookSpec == Init /\ [][HookNext]_vars

(* ------------------------- observation helpers ------------------------- *)

Done(t, op) == pc[t] = "done" /\ input[t].op = op

\* the listing document a decode works on
Doc(t) ==
    IF input[t].op = "DecodeReplies" THEN input[t].arg.RepliesListing
    ELSE input[t].arg.elems[2]

\* the replies payload the document gives the comment with this id
RECURSIVE PayloadAt(_, _)
PayloadAt(p, path) ==
    IF path = <<>> THEN p
    ELSE PayloadAt(p.children[Head(path)].replies, Tail(path))

\* the ids of all comments inside payload p
RECURSIVE IdsIn(_)
IdsIn(p) ==
    UNION {{p.children[i].id} \cup IdsIn(p.children[i].replies) : i \in 1..Len(p.children)}

\* whether DecodeReplies on a comment holding payload p meets no malformed payload
RECURSIVE DecodesCleanly(_)
DecodesCleanly(p) ==
    \/ IsEmptyStringLiteral(p)
    \/ /\ UnmarshalCommentListing(p).err = Nil
       /\ \A i \in 1..Len(p.children) : DecodesCleanly(p.children[i].replies)

\* the tree the document describes below a comment: own fields and replies
RECURSIVE ExpectedReplies(_)
ExpectedReplies(p) ==
    [i \in 1..Len(p.children) |->
        [id |-> p.children[i].id,
         CreatedUTC |-> DecodeCommentThing(p.children[i]).data.CreatedUTC,
         replies |-> ExpectedReplies(p.children[i].replies)]]

\* the tree found in the heap below a comment value, followed fuel levels deep
RECURSIVE BuiltReplies(_, _)
BuiltReplies(c, fuel) ==
    IF fuel = 0 THEN <<>>
    ELSE [i \in 1..Len(c.Replies) |->
            [id |-> heap[c.Replies[i]].id,
             CreatedUTC |-> heap[c.Replies[i]].CreatedUTC,
             replies |-> BuiltReplies(heap[c.Replies[i]], fuel - 1)]]

Events(t) == {trace[t][k] : k \in 1..Len(trace[t])}

\* every (cell, position) of a Replies sequence that refers to address a
OwnersOf(a) ==
    {<<b, k>> \in (DOMAIN heap) \X (1..(MaxNodes + 2)) :
        k <= Len(heap[b].Replies) /\ heap[b].Replies[k] = a}

\* addresses reachable from the set S in at most n steps along Replies
RECURSIVE ReachableFrom(_, _)
ReachableFrom(S, n) ==
    IF n = 0 THEN S
    ELSE ReachableFrom(S \cup UNION {{heap[b].Replies[k] : k \in 1..Len(heap[b].Replies)} : b \in S},
                       n - 1)
RepliesOf(a) == {heap[a].Replies[k] : k \in 1..Len(heap[a].Replies)}

(* ------------------------------- claims -------------------------------- *)

\* C1: after DecodeReplies returns nil on a comment whose payload decodes at
\* every depth, the comment's Replies is the listing's children c1..cn, each
\* with its own fields and its own decoded replies, in the listing's order.
C1_RepliesAreTheListingsChildren ==
    \A t \in Threads :
        (Done(t, "DecodeReplies") /\ result[t].err = Nil /\ DecodesCleanly(Doc(t)))
            => BuiltReplies(heap[rpj[t].cell], MaxNodes + 1) = ExpectedReplies(Doc(t))

\* C2: in a tree built by DecodeReplies no comment node is referred to from
\* two positions of Replies sequences, and no node is reachable from itself.
C2_NoAliasingNoCycle ==
    \A t \in Threads :
        (Done(t, "DecodeReplies") /\ result[t].err = Nil)
            => \A a \in DOMAIN heap :
                  /\ Cardinality(OwnersOf(a)) <= 1
                  /\ a \notin ReachableFrom(RepliesOf(a), Len(heap))

\* C3: RequestPostJSON returns an UnexpectedChildCount error and no Post when
\* element 0 is a listing with zero or more than one child; it returns a Post
\* only when element 0 has exactly one child.
C3_UnexpectedChildCount ==
    \A t \in Threads :
        (/\ Done(t, "RequestPostJSON")
         /\ input[t].arg.isArray
         /\ Len(input[t].arg.elems) = 2
         /\ input[t].arg.elems[1].kind = "listing"
         /\ UnmarshalPostListing(input[t].arg.elems[1]).err = Nil
         /\ Len(input[t].arg.elems[1].children) # 1)
            => /\ result[t].kind = "RequestPostJSON"
               /\ result[t].err = "UnexpectedChildCount"
               /\ result[t].post = <<>>

\* C4: the comments attached so far by RequestPostJSON are the first children
\* of element 1 in order, each attached only after DecodeReplies returned nil
\* on it (its payload released, one Replies entry per child of its listing);
\* the returned Post holds exactly the m children of element 1, none if m = 0.
AttachedInOrder(t, comments) ==
    \A j \in 1..Len(comments) :
        /\ comments[j].id = Doc(t).children[j].id
        /\ comments[j].CreatedUTC = DecodeCommentThing(Doc(t).children[j]).data.CreatedUTC
        /\ comments[j].RepliesListing = Released
        /\ Event("return", comments[j].id, Nil) \in Events(t)
        /\ Len(comments[j].Replies) = Len(Doc(t).children[j].replies.children)
C4_PostRepliesInOrder ==
    \A t \in Threads :
        /\ (input[t].op = "RequestPostJSON" /\ pc[t] \in {"rpj_loop", "rpj_called"})
              => /\ Len(rpj[t].comments) = rpj[t].i - 1
                 /\ AttachedInOrder(t, rpj[t].comments)
        /\ (Done(t, "RequestPostJSON") /\ result[t].post # <<>>)
              => /\ Len(result[t].post[1].Replies) = Len(Doc(t).children)
                 /\ AttachedInOrder(t, result[t].post[1].Replies)
C4_Witness ==
    /\ Done(1, "RequestPostJSON")
    /\ result[1].post # <<>>
    /\ Len(result[1].post[1].Replies) = 2
    /\ Len(result[1].post[1].Replies[1].Replies) = 1
C4_WitnessEmpty ==
    /\ Done(1, "RequestPostJSON")
    /\ result[1].post # <<>>
    /\ Doc(1).kind = "listing"
    /\ result[1].post[1].Replies = <<>>

\* C5: when DecodeReplies returns an error, the comment's Replies holds none
\* of the children of the failed build.
C5_NoPartialTreeOnError ==
    \A t \in Threads :
        (Done(t, "DecodeReplies") /\ result[t].err # Nil)
            => heap[rpj[t].cell].Replies = <<>>

\* C6: a comment's RepliesListing is emptied only by the return of the
\* DecodeReplies call on that comment, exactly when that call returns nil,
\* and then every comment beneath it has returned nil before; when the call
\* returns an error the comment still holds its original payload.
ReturnStep(t) == Len(stack'[t]) = Len(stack[t]) - 1
C6_ReleaseOnlyOnSuccess ==
    [][/\ \A t \in Threads :
            ReturnStep(t) =>
                LET self == Top(t).self
                    orig == PayloadAt(Doc(t), heap[self].id)
                IN  /\ heap[self].RepliesListing = orig
                    /\ (ret'[t] = Nil) =>
                          /\ heap'[self].RepliesListing = Released
                          /\ \A y \in IdsIn(orig) : Event("return", y, Nil) \in Events(t)
                    /\ (ret'[t] # Nil) => heap'[self].RepliesListing = orig
       /\ \A a \in DOMAIN heap :
            (heap[a].RepliesListing # Released /\ heap'[a].RepliesListing = Released)
                => \E t \in Threads : ReturnStep(t) /\ Top(t).self = a /\ ret'[t] = Nil
      ]_vars
C6_Witness ==
    /\ Done(1, "DecodeReplies")
    /\ result[1].err # Nil
    /\ \E e \in Events(1) : e.ev = "return" /\ e.err = Nil /\ IdsIn(PayloadAt(Doc(1), e.id)) # {}
    /\ heap[rpj[1].cell].RepliesListing = Doc(1)

\* C7: DecodeReplies on a comment whose RepliesListing is the empty-string
\* literal returns nil, leaves Replies empty, parses no listing and makes no
\* recursive call.
IsChildId(y, x) == Len(y) = Len(x) + 1 /\ SubSeq(y, 1, Len(x)) = x
C7_EmptyLiteralIsTerminal ==
    \A t \in Threads :
        /\ \A e \in Events(t) :
              (e.ev = "call" /\ PayloadAt(Doc(t), e.id) = EmptyStringLiteral)
                 => \A e2 \in Events(t) :
                       /\ ~(e2.ev = "parse" /\ e2.id = e.id)
                       /\ ~(e2.ev = "call" /\ IsChildId(e2.id, e.id))
                       /\ (e2.ev = "return" /\ e2.id = e.id) => e2.err = Nil
        /\ \A k \in 1..Len(stack[t]) :
              IsEmptyStringLiteral(heap[stack[t][k].self].RepliesListing)
                 => /\ k = Len(stack[t])
                    /\ heap[stack[t][k].self].Replies = <<>>
                    /\ stack[t][k].err = Nil
        /\ (Done(t, "DecodeReplies") /\ Doc(t) = EmptyStringLiteral)
              => /\ result[t].err = Nil
                 /\ heap[rpj[t].cell].Replies = <<>>
                 /\ trace[t] = <<Event("call", <<>>, Nil), Event("return", <<>>, Nil)>>
C7_Witness ==
    /\ Done(1, "DecodeReplies")
    /\ Doc(1) = EmptyStringLiteral
    /\ result[1].err = Nil

\* C8: FloatTime.UnmarshalJSON on a fresh value yields the zero Timestamp for
\* true and false, the time at Unix second trunc(n) for every JSON number n
\* (0 and 1 included), and an error for any other raw bytes.
IsJSONNumber(data) ==
    LET neg == Len(data) > 0 /\ data[1] = "-"
        body == IF neg THEN Tail(data) ELSE data
        dot == DotPos(body)
        ip == SubSeq(body, 1, dot - 1)
        fp == SubSeq(body, dot + 1, Len(body))
    IN  /\ Len(ip) > 0 /\ AllDigits(ip)
        /\ (Len(ip) > 1 => ip[1] # "0")
        /\ (dot <= Len(body) => (Len(fp) > 0 /\ AllDigits(fp)))
Trunc(data) ==
    LET neg == data[1] = "-"
        body == IF neg THEN Tail(data) ELSE data
        mag == DigitsVal(SubSeq(body, 1, DotPos(body) - 1))
    IN  IF neg THEN 0 - mag ELSE mag
C8_TimestampDecode ==
    \A t \in Threads :
        Done(t, "UnmarshalJSON") =>
            IF input[t].arg \in {RawTrue, RawFalse}
            THEN result[t].err = Nil /\ result[t].ft = ZeroTime
            ELSE IF IsJSONNumber(input[t].arg)
            THEN result[t].err = Nil /\ result[t].ft = UnixTime(Trunc(input[t].arg))
            ELSE result[t].err # Nil

\* C9: a listing envelope without the data key or without the children key
\* fails with MalformedEnvelope, and an envelope with an empty children array
\* yields an empty sequence and no error, in DecodeReplies and for element 0
\* and element 1 of RequestPostJSON.
LacksKey(p) == p.kind \in {"nodata", "nochildren"}
C9_MalformedEnvelope ==
    \A t \in Threads :
        /\ Done(t, "DecodeReplies") =>
              /\ LacksKey(Doc(t)) => result[t].err = "MalformedEnvelope"
              /\ (Doc(t) = Raw("listing", <<>>)) =>
                    (result[t].err = Nil /\ heap[rpj[t].cell].Replies = <<>>)
        /\ (Done(t, "RequestPostJSON") /\ input[t].arg.isArray /\ Len(input[t].arg.elems) = 2) =>
              /\ LacksKey(input[t].arg.elems[1]) =>
                    (result[t].kind = "RequestPostJSON" /\ result[t].err = "MalformedEnvelope")
              /\ (input[t].arg.elems[1] = OnePost /\ LacksKey(Doc(t))) =>
                    result[t].err = "MalformedEnvelope"
              /\ (input[t].arg.elems[1] = OnePost /\ Doc(t) = Raw("listing", <<>>)) =>
                    (result[t].err = Nil /\ result[t].post # <<>>
                        /\ result[t].post[1].Replies = <<>>)

\* C10: every DecodeReplies call eventually returns; each recursive call works
\* on a payload strictly smaller than its caller's, and a comment whose
\* payload is the empty-string literal makes no call.
PayloadOfFrame(t, k) == heap[stack[t][k].self].RepliesListing
C10_Terminates ==
    /\ [](\A t \in Threads : \A k \in 2..Len(stack[t]) :
             /\ RawLen(PayloadOfFrame(t, k)) < RawLen(PayloadOfFrame(t, k - 1))
             /\ ~IsEmptyStringLiteral(PayloadOfFrame(t, k - 1)))
    /\ \A t \in Threads : (stack[t] # <<>>) ~> (stack[t] = <<>>)
C10_Witness ==
    /\ Len(stack[1]) = 3
    /\ IsEmptyStringLiteral(PayloadOfFrame(1, 3))

\* what DecodeReplies on a comment holding payload p does when nothing else
\* runs: the error it returns and the tree its Replies then refers to
RECURSIVE SoloDecodeReplies(_, _)
SoloDecodeReplies(p, perIteration) ==
    IF IsEmptyStringLiteral(p) THEN [err |-> Nil, replies |-> <<>>]
    ELSE LET r == UnmarshalCommentListing(p) IN
         IF r.err # Nil THEN [err |-> r.err, replies |-> <<>>]
         ELSE LET n == Len(r.children)
                  sub == [i \in 1..n |->
                            SoloDecodeReplies(r.children[i].RepliesListing, perIteration)]
                  bad == {i \in 1..n : sub[i].err # Nil}
                  node == [i \in 1..n |->
                             [id |-> r.children[i].id,
                              CreatedUTC |-> r.children[i].CreatedUTC,
                              replies |-> sub[i].replies]]
              IN  IF bad # {}
                  THEN [err |-> sub[CHOOSE i \in bad : \A j \in bad : i <= j].err,
                        replies |-> <<>>]
                  ELSE [err |-> Nil,
                        replies |-> [i \in 1..n |-> IF perIteration THEN node[i] ELSE node[n]]]

\* what the decode phase of RequestPostJSON returns for a body when nothing
\* else runs, the Post's Replies followed through the pointers
SoloRequestPostJSON(body, perIteration) ==
    IF ~body.isArray THEN Returned("cannot unmarshal object", <<>>)
    ELSE IF Len(body.elems) < 1 THEN Panicked("index out of range [0]")
    ELSE LET posts == UnmarshalPostListing(body.elems[1]) IN
         IF posts.err # Nil THEN Returned(posts.err, <<>>)
         ELSE IF ~PostIndexInRange(posts.children) THEN Panicked("index out of range [0]")
         ELSE IF Len(body.elems) < 2 THEN Panicked("index out of range [1]")
         ELSE LET cl == UnmarshalCommentListing(body.elems[2]) IN
              IF cl.err # Nil THEN Returned(cl.err, <<>>)
              ELSE LET n == Len(cl.children)
                       sub == [i \in 1..n |->
                                 SoloDecodeReplies(cl.children[i].RepliesListing, perIteration)]
                       bad == {i \in 1..n : sub[i].err # Nil}
                   IN  IF bad # {}
                       THEN Returned(sub[CHOOSE i \in bad : \A j \in bad : i <= j].err, <<>>)
                       ELSE Returned(Nil,
                              <<[posts.children[1] EXCEPT !.Replies =
                                   [i \in 1..n |->
                                       [id |-> cl.children[i].id,
                                        CreatedUTC |-> cl.children[i].CreatedUTC,
                                        replies |-> sub[i].replies]]]>>)

\* what thread t returned, the Post's Replies followed through the pointers
Outcome(t) ==
    IF result[t].post = <<>> THEN result[t]
    ELSE Returned(result[t].err,
           <<[result[t].post[1] EXCEPT !.Replies =
                [i \in 1..Len(result[t].post[1].Replies) |->
                    [id |-> result[t].post[1].Replies[i].id,
                     CreatedUTC |-> result[t].post[1].Replies[i].CreatedUTC,
                     replies |-> BuiltReplies(result[t].post[1].Replies[i], MaxNodes + 1)]]]>>)

\* the heap cells thread t can reach: its loop variables, the receivers of
\* its calls, and everything its comments' Replies lead to
RootsOf(t) ==
    ({rpj[t].cell} \cup {stack[t][k].self : k \in 1..Len(stack[t])}
                  \cup {stack[t][k].cell : k \in 1..Len(stack[t])}
                  \cup UNION {{rpj[t].comments[j].Replies[k] :
                                  k \in 1..Len(rpj[t].comments[j].Replies)} :
                                  j \in 1..Len(rpj[t].comments)})
      \ {0}
Owned(t) == ReachableFrom(RootsOf(t), Len(heap))

\* the part of the state that belongs to thread t
Locals(t) == <<pc[t], input[t], stack[t], ret[t], result[t], trace[t], rpj[t]>>

\* C11: two decodes of independent responses, interleaved in any way, each
\* end with the Post tree or error they end with when run alone; the cells
\* the two decodes can reach are disjoint, and a step of one decode writes
\* no cell, payload or Replies sequence the other can reach.
C11_IndependentDecodes ==
    /\ [](/\ \A t \in Threads :
               Done(t, "RequestPostJSON")
                   => Outcome(t) = SoloRequestPostJSON(input[t].arg, goLoopVarPerIteration)
          /\ Owned(1) \cap Owned(2) = {})
    /\ [][\A t \in Threads :
             (Locals(t)' = Locals(t)) => \A a \in Owned(t) : heap'[a] = heap[a]]_vars
C11_Witness ==
    /\ Done(1, "RequestPostJSON") /\ Done(2, "RequestPostJSON")
    /\ result[1].post # <<>> /\ result[2].post # <<>>
    /\ Len(result[1].post[1].Replies) = 1
    /\ Len(result[1].post[1].Replies[1].Replies) = 1
    /\ Len(result[2].post[1].Replies) = 1
    /\ Len(result[2].post[1].Replies[1].Replies) = 1
    /\ \E a \in Owned(1), c \in Owned(1), b \in Owned(2) : a < b /\ b < c

\* C12: every Get, PostForm or RequestPostJSON request to the OAuth host finds
\* the token checked first: with no token, a blank token or a token whose
\* Expiry is before the current time the call returns an error and no request
\* is built; otherwise the request carries "bearer <token>".
TokenValid == token # <<>> /\ token[1].Token # "" /\ ~(token[1].Expiry < now)
C12_TokenCheckedBeforeOAuthRequest ==
    [][\A t \in Threads :
          ((Get(t) \/ PostForm(t) \/ RPJ_Get(t)) /\ call'.url.Host = oauthHost)
              => IF TokenValid
                 THEN /\ call'.request # <<>>
                      /\ call'.request[1].Authorization = BearerAuth(token[1].Token)
                 ELSE /\ call'.outcome = "error"
                      /\ call'.request = <<>>
      ]_vars

\* C13: SendErrors with a non-empty username returns a hook whose Levels() is
\* the default list (Panic, Fatal, Error, Warn) and which logrus fires for
\* each of these levels; the package-level default list is unchanged; with an
\* empty username it returns an error and registers no hook.
DefaultLevels == <<PanicLevel, FatalLevel, ErrorLevel, WarnLevel>>
RegisteredFor(registry, l) == {registry[l][i] : i \in 1..Len(registry[l])}
C13_HookLevelsAreTheDefaults ==
    [][\A t \in Threads :
          SendErrors(t) =>
              /\ defaultHookErrorLevels' = DefaultLevels
              /\ IF call'.username = <<>>
                 THEN /\ call'.err # Nil
                      /\ hooks' = hooks
                      /\ levelHooks' = levelHooks
                 ELSE /\ call'.err = Nil
                      /\ Levels(hooks'[call'.hook]) = DefaultLevels
                      /\ \A i \in 1..Len(DefaultLevels) :
                            call'.hook \in RegisteredFor(levelHooks', DefaultLevels[i])
      ]_vars

\* C14: a PasswordLogin that returns an error leaves the stored Token as it
\* was; one that returns nil stores a Token with a non-empty access token and
\* Expiry = time of the call + ExpiresIn seconds; the stored Token is always
\* absent or non-blank.
C14_LoginErrorKeepsToken ==
    /\ [](token = <<>> \/ token[1].Token # "")
    /\ [][\A t \in Threads :
             PasswordLogin(t) =>
                 /\ (call'.err # Nil) => token' = token
                 /\ (call'.err = Nil) =>
                       /\ token' # <<>>
                       /\ token'[1].Token # ""
                       /\ \E n \in 0..MaxExpiresIn :
                             /\ token'[1].ExpiresIn = n * Second
                             /\ token'[1].Expiry = now + n
         ]_vars
C14_Witness ==
    /\ call.op = "PasswordLogin"
    /\ call.err = "blank token"
    /\ token # <<>>
    /\ token[1].ExpiresIn = Second
    /\ token[1].Expiry = now

\* C15: for every path handed to RequestPostJSON, the empty path and paths of
\* slashes only included, the stripping loop ends without an out-of-range
\* index and the request goes to the OAuth host for the path without its
\* trailing slashes, followed by ".json".
RECURSIVE StripTrailingSlashes(_)
StripTrailingSlashes(path) ==
    IF path # <<>> /\ path[Len(path)] = "/"
    THEN StripTrailingSlashes(SubSeq(path, 1, Len(path) - 1))
    ELSE path
C15_TrailingSlashesStripped ==
    \A t \in Threads :
        /\ result[t] # Panicked("index out of range [-1]")
        /\ (pc[t] = "rpj_get") =>
              req[t].u = URL(oauthHost, StripTrailingSlashes(req[t].orig) \o JSONSuffix)

====
